---- MODULE Spec2Model ----
(***************************************************************************)
(* Tea: concurrent download orchestration, retry worker, URL               *)
(* classification and download history (src/tea/downloader.py,             *)
(* src/tea/info.py, src/tea/history.py).                                   *)
(*                                                                         *)
(* The specifications below share the variables:                           *)
(*   SpecWorker   one direct call of DownloadService.download_single_video *)
(*   Spec         one call of DownloadService.download (the batch)         *)
(*   SpecHistory  calls of HistoryManager add/is_downloaded/remove/clear   *)
(*   SpecPool     download() with any max_workers argument                 *)
(*   SpecFaulty   download() while saves of the history may fail           *)
(*   SpecShared   two HistoryManager instances on one history file         *)
(*   SpecInfo     calls of InfoExtractor get_info/get_content_type         *)
(***************************************************************************)
EXTENDS Integers, Sequences, FiniteSets, TLC

(* ---- program constants (src/tea/downloader.py:34-36) ---- *)
MAX_RETRIES == 3
RETRY_DELAY == 2
MAX_CONCURRENT_WORKERS == 5

(* ---- bounds of the model ---- *)
MaxUrls == 2          \* URLs in one batch
MaxEntries == 2       \* entries of a playlist result of the download call
MaxHistEntries == 3   \* entries the history file may hold (SpecHistory, SpecShared)
MaxDate == 2          \* calendar dates the clock may reach (SpecHistory)

VARIABLES
    (* InfoExtractor *)
    cache,            \* self._cache: url -> <<(kind, info)>> or <<>> when absent
    i_last,           \* the most recent direct get_info / get_content_type call:
                      \* its arguments, the collaborator's answer, its result
    (* download(): the coordinator *)
    urls,             \* the urls argument
    max_workers,      \* the max_workers argument
    cpc,              \* position of download(): preflight, pool, submit, collect,
                      \* summary, done, raised; "direct" when no batch runs
    pidx,             \* URLs classified by the pre-flight pass
    nsub,             \* tasks submitted to the executor
    results,          \* the results list
    summary,          \* what _print_summary printed, <<>> before
    (* download_single_video(): one worker per task *)
    wpc,              \* new, queued, running, sleeping, returned, collected
    attempt,          \* loop variable of the retry loop
    last_exception,   \* last_exception local
    content_type,     \* content_type local
    outcome,          \* the dict returned, <<>> before
    dl_log,           \* the answers of the extract_info(url, download=True) calls
                      \* made, in order
    sleeps,           \* the delays passed to time.sleep, in order
    (* HistoryManager *)
    hist_file,        \* the history file: [kind, data]
    hist_mem,         \* self._history of each HistoryManager instance
    today,            \* the calendar date datetime.now() reports
    add_log,          \* the HistoryManager.add calls made, in order
    h_last,           \* the most recent HistoryManager call and what it returned
    h_prev,           \* the call before it
    (* the extract_info(url, download=False) calls made inside download() *)
    meta_calls,       \* per option profile and URL, how many calls were made
    (* what the caller of download() set up *)
    use_ai,           \* config.use_ai_filename_cleaning and a cleaner was passed
    (* two processes that each run HistoryManager.add once *)
    rpc,              \* position of each: idle, loaded, opened, done
    radd,             \* the url argument of each, <<>> before the call
    fsize,            \* the length of the history file while they write
    (* ConfigManager *)
    cfg_file,         \* the config file: [kind, data]
    cfg_mem,          \* self._config
    c_last,           \* the most recent ConfigManager call and how it ended
    (* CLI: one run of the program *)
    mode,             \* interactive or batch; none when no CLI runs
    cli_urls,         \* the URLs entered, or read from the batch file
    didx,             \* URLs _handle_duplicates has dealt with
    dup_action,       \* its duplicate_action local, "unread" before
    to_download,      \* its urls_to_download list
    decisions,        \* per URL dealt with: what was found, chosen and done
    hist0             \* the history file as the run found it

infoVars == <<cache, i_last, meta_calls>>
coordVars == <<urls, max_workers, cpc, pidx, nsub, results, summary>>
workerVars == <<wpc, attempt, last_exception, content_type, outcome, dl_log, sleeps>>
histVars == <<hist_file, hist_mem, today, add_log, h_last, h_prev>>
raceVars == <<rpc, radd, fsize>>
cfgVars == <<cfg_file, cfg_mem, c_last>>
cliVars == <<mode, cli_urls, didx, dup_action, to_download, decisions, hist0>>
extVars == <<use_ai, raceVars, cfgVars, cliVars>>

vars == <<infoVars, coordVars, workerVars, histVars, extVars>>

(***************************************************************************)
(* URLs.  A URL is the sequence of its pieces, so that Python's            *)
(* `'/@' in url` is membership of a piece.                                 *)
(***************************************************************************)
UrlAAA == <<"https://youtu.be", "/", "AAA">>
UrlBBB == <<"https://youtube.com", "/", "watch", "?", "v=BBB">>
UrlPL == <<"https://youtube.com", "/", "playlist", "?", "list=PL">>
UrlChan == <<"https://youtube.com", "/@", "chan">>

UrlPool == <<UrlAAA, UrlBBB, UrlPL, UrlChan>>
UrlSet == {UrlPool[i] : i \in DOMAIN UrlPool}

\* strings that are no URLs: the empty string, and "http://[/@chan", whose host
\* opens a bracket that is never closed
UrlEmpty == <<>>
UrlBadChan == <<"http://", "[", "/@", "chan">>

\* the strings handed to InfoExtractor directly
InfoInputs == {UrlPL, UrlChan, UrlEmpty, UrlBadChan}

AllUrls == UrlSet \cup InfoInputs

\* the URL of the i-th task of a batch
UrlOf(i) == UrlPool[((i - 1) % Len(UrlPool)) + 1]

OutputPath == "downloads"

(***************************************************************************)
(* The extraction collaborator (yt_dlp.YoutubeDL.extract_info).  Its       *)
(* answers are inputs of the model.                                        *)
(***************************************************************************)
NoReply == [r |-> "nocall", type |-> "-"]
EmptyInfo == [r |-> "empty", type |-> "-"]

\* answers to extract_info(url, download=False): it raises, returns None, or
\* returns a mapping whose _type key is absent or holds a type name
MetaTypes == {"absent", "video", "playlist", "url"}
MetaReplies ==
    {[r |-> "raise", type |-> "-"], [r |-> "none", type |-> "-"]}
        \cup {[r |-> "info", type |-> t] : t \in MetaTypes}

\* a deterministic collaborator: the type it reports for each URL of the pool
MetaReplyOf(url) ==
    IF url \in {UrlPL, UrlChan} THEN [r |-> "info", type |-> "playlist"]
    ELSE [r |-> "info", type |-> "absent"]

\* the answers each URL may get: any, or those of the deterministic collaborator
MetaAny == [u \in AllUrls |-> MetaReplies]
MetaMock == [u \in UrlSet |-> {MetaReplyOf(u)}]

ErrMsgs == {"Network error", "Permanent error"}
Titles == {"Song", "absent"}

\* answers to extract_info(url, download=True): it raises msg, returns None, or
\* returns a mapping: _type, entries (-1: no entries key, else their number),
\* title ("absent": no title key)
DlRaise(msgs) ==
    {[r |-> "raise", msg |-> m, type |-> "-", entries |-> -1, title |-> "absent"] : m \in msgs}
DlNone ==
    [r |-> "none", msg |-> "-", type |-> "-", entries |-> -1, title |-> "absent"]
DlInfo(titles, counts, types) ==
    {[r |-> "info", msg |-> "-", type |-> "playlist", entries |-> n, title |-> t] :
        n \in counts, t \in titles}
    \cup {[r |-> "info", msg |-> "-", type |-> ty, entries |-> -1, title |-> t] :
        ty \in types, t \in titles}
\* every answer
DlReplies ==
    DlRaise(ErrMsgs) \cup {DlNone} \cup DlInfo(Titles, -1..MaxEntries, {"video", "absent"})
\* the narrower answers of a batch: one error, titled results, playlists that
\* are empty or full
BatchDlReplies ==
    DlRaise({"Permanent error"}) \cup {DlNone}
        \cup DlInfo({"Song"}, {0, MaxEntries}, {"video"})

(***************************************************************************)
(* InfoExtractor (src/tea/info.py)                                         *)
(***************************************************************************)
\* faulty variant: the handle form of a channel URL is not recognised
ChannelPiecesNoHandle == {"/channel/", "/c/", "/user/"}

\* _is_channel_url(), lines 112-120
ChannelPieces == {"/@", "/channel/", "/c/", "/user/"}

IsChannelUrl(url) == \E i \in DOMAIN url : url[i] \in ChannelPieces

\* 'list' in parse_qs(urlparse(url).query): a list=<value> piece after the "?"
HasListParam(url) ==
    \E i, j \in DOMAIN url : i < j /\ url[i] = "?" /\ url[j] = "list=PL"

\* urlparse(url), line 99: urllib's urlsplit raises ValueError("Invalid IPv6
\* URL") when the host holds one of "[" and "]" without the other
UrlParseRaises(url) ==
    ("[" \in {url[i] : i \in DOMAIN url}) # ("]" \in {url[i] : i \in DOMAIN url})

\* what a call yields when an exception leaves it instead of a (kind, info)
RaisedResult == [kind |-> "ValueError", info |-> EmptyInfo]
Raised(result) == result.kind = "ValueError"

\* _guess_from_url(), lines 88-110
GuessFromUrl(url) ==
    IF UrlParseRaises(url) THEN RaisedResult
    ELSE IF IsChannelUrl(url) THEN [kind |-> "channel", info |-> EmptyInfo]
    ELSE IF HasListParam(url) THEN [kind |-> "playlist", info |-> EmptyInfo]
    ELSE [kind |-> "video", info |-> EmptyInfo]

\* _extract_with_ytdlp(), lines 47-86: the fallback runs in the None branch and
\* in the except handler, so what it raises leaves the method
ExtractWithYtdlp(url, reply) ==
    IF reply.r = "raise" \/ reply.r = "none" THEN GuessFromUrl(url)
    ELSE LET ct == IF reply.type = "absent" THEN "video" ELSE reply.type
         IN  IF ct = "playlist"
             THEN IF IsChannelUrl(url)
                  THEN [kind |-> "channel", info |-> reply]
                  ELSE [kind |-> "playlist", info |-> reply]
             ELSE [kind |-> ct, info |-> reply]

Cached(url) == cache[url] # <<>>

\* get_info(url): what it returns, given the collaborator's answer on a miss
GetInfoResult(url, reply) ==
    IF Cached(url) THEN cache[url][1] ELSE ExtractWithYtdlp(url, reply)

\* faulty variant: a result of the URL-pattern fallback is not stored
GetInfoCacheNoFallback(url, reply) ==
    IF Cached(url) \/ reply.r # "info" THEN cache
    ELSE [cache EXCEPT ![url] = <<ExtractWithYtdlp(url, reply)>>]

\* get_info(url): the cache it leaves; line 139 is not reached when line 136
\* raised
GetInfoCache(url, reply) ==
    IF Cached(url) \/ Raised(ExtractWithYtdlp(url, reply)) THEN cache
    ELSE [cache EXCEPT ![url] = <<ExtractWithYtdlp(url, reply)>>]

\* the answers the collaborator may give to get_info(url): none is asked on a hit
AskMeta(url, replies) == IF Cached(url) THEN {NoReply} ELSE replies[url]

\* the option profiles of a metadata-only call: the flat one of
\* _extract_with_ytdlp (lines 57-63) and the one download_single_video uses to
\* fetch a title for the filename cleaner (src/tea/downloader.py:164-168)
Profiles == {"flat", "title"}

NoMetaCalls == [p \in Profiles |-> [u \in AllUrls |-> 0]]

\* the calls counted so far and one more with profile p for url
CountCall(calls, p, url) == [calls EXCEPT ![p][url] = @ + 1]

\* get_info(url), lines 134-137: the collaborator is called on a cache miss only
CountGetInfo(calls, url) ==
    IF Cached(url) THEN calls ELSE CountCall(calls, "flat", url)

NoInfoCall ==
    [op |-> "none", url |-> <<>>, use_cache |-> TRUE, reply |-> NoReply,
     result |-> [kind |-> "none", info |-> EmptyInfo]]

\* one call of get_info(url), lines 122-141
InfoGetInfo(url, replies) ==
    \E reply \in AskMeta(url, replies) :
        /\ cache' = GetInfoCache(url, reply)
        /\ UNCHANGED meta_calls
        /\ i_last' = [op |-> "get_info", url |-> url, use_cache |-> TRUE,
                      reply |-> reply, result |-> GetInfoResult(url, reply)]

\* one call of get_info(url, use_cache=False): the cache is neither read nor
\* written
InfoGetInfoNoCache(url, replies) ==
    \E reply \in replies[url] :
        /\ cache' = cache
        /\ UNCHANGED meta_calls
        /\ i_last' = [op |-> "get_info", url |-> url, use_cache |-> FALSE,
                      reply |-> reply, result |-> ExtractWithYtdlp(url, reply)]

\* one call of get_content_type(url), lines 143-154: the kind of get_info(url)
InfoGetContentType(url, replies) ==
    \E reply \in AskMeta(url, replies) :
        /\ cache' = GetInfoCache(url, reply)
        /\ UNCHANGED meta_calls
        /\ i_last' = [op |-> "get_content_type", url |-> url, use_cache |-> TRUE,
                      reply |-> reply,
                      result |-> [kind |-> GetInfoResult(url, reply).kind,
                                  info |-> EmptyInfo]]

(***************************************************************************)
(* DownloadService.download_single_video (src/tea/downloader.py:73-264)    *)
(***************************************************************************)
RECURSIVE Pow2(_)
Pow2(n) == IF n = 0 THEN 1 ELSE 2 * Pow2(n - 1)

\* str.title() of the content types
TitleCase(ct) ==
    CASE ct = "video" -> "Video"
      [] ct = "playlist" -> "Playlist"
      [] ct = "channel" -> "Channel"
      [] ct = "url" -> "Url"
      [] OTHER -> ct

\* faulty variant: the exponent is off by one
RetryDelayDoubled(k) == RETRY_DELAY * Pow2(k)

\* the delay slept after failed attempt k (line 247)
RetryDelay(k) == RETRY_DELAY * Pow2(k - 1)

\* faulty variant: the loop gives up one attempt early
RetryAgainShort(k) == k < MAX_RETRIES - 1

\* whether failed attempt k is followed by a sleep and another attempt (line 246)
RetryAgain(k) == k < MAX_RETRIES

Failure(url, message) ==
    [url |-> url, success |-> FALSE, count |-> 0, title |-> "absent",
     type |-> "absent", message |-> message]

Success(url, count, title, type, message) ==
    [url |-> url, success |-> TRUE, count |-> count, title |-> title,
     type |-> type, message |-> message]

\* len(download_result.get('entries', []))
VideoCount(reply) == IF reply.entries = -1 THEN 0 ELSE reply.entries

\* download_result.get('title', default)
TitleOr(reply, default) == IF reply.title = "absent" THEN default ELSE reply.title

\* lines 204-210: the call returned None
NoneOutcome(i) ==
    Failure(urls[i], <<"[ERROR]", i, "Failed to extract video information">>)

\* lines 217-223: a playlist result without entries
EmptyOutcome(i) ==
    Failure(urls[i], <<"[ERROR]", i, TitleCase(content_type[i]),
                      "appears to be empty or private">>)

\* lines 225-232: a playlist result with entries
PlaylistOutcome(i, reply) ==
    Success(urls[i], VideoCount(reply), TitleOr(reply, "Unknown Playlist"),
            content_type[i],
            <<"[OK]", i, TitleCase(content_type[i]), "download completed">>)

\* faulty variant: the count of a single video is taken from its entries
VideoOutcomeCountEntries(i, reply) ==
    Success(urls[i], VideoCount(reply), TitleOr(reply, "Unknown"), "video",
            <<"[OK]", i, "Video", "download completed">>)

\* lines 233-242: any other result
VideoOutcome(i, reply) ==
    Success(urls[i], 1, TitleOr(reply, "Unknown"), "video",
            <<"[OK]", i, "Video", "download completed">>)

\* lines 252-257: the last attempt raised; error is str(last_exception)
ExhaustedOutcome(i, error) ==
    Failure(urls[i], <<"[ERROR]", i, "Failed after", MAX_RETRIES,
                      "attempts. Last error:", error>>)

\* lines 259-264: the loop ran out
UnexpectedOutcome(i) ==
    Failure(urls[i], <<"[ERROR]", i, "Unexpected error:", last_exception[i]>>)

\* faulty variant: a None result is retried like an exception
RaisesOrNone(reply) == reply.r \in {"raise", "none"}

\* lines 200-202 and 244: the answers that take the except branch
Raises(reply) == reply.r = "raise"

\* faulty variant: the empty-playlist check of line 217 is missing
ReturnedOutcomeNoEmptyCheck(i, reply) ==
    IF reply.r = "none" THEN NoneOutcome(i)
    ELSE IF reply.type = "playlist" THEN PlaylistOutcome(i, reply)
         ELSE VideoOutcome(i, reply)

\* lines 204-242: the outcome of an attempt whose call returned
ReturnedOutcome(i, reply) ==
    IF reply.r = "none" THEN NoneOutcome(i)
    ELSE IF reply.type = "playlist"
         THEN IF VideoCount(reply) = 0 THEN EmptyOutcome(i)
              ELSE PlaylistOutcome(i, reply)
         ELSE VideoOutcome(i, reply)

\* faulty variant: the title is fetched for every kind of content
FetchesTitleAnyKind(result) == use_ai /\ ~Raised(result)

\* lines 160-162: whether the worker asks the collaborator for the metadata of
\* the URL to get a title for the filename cleaner
FetchesTitle(result) == use_ai /\ ~Raised(result) /\ result.kind = "video"

\* lines 94-196: a thread enters download_single_video for task i; get_info
\* (line 156) asks the collaborator on a cache miss
WorkerStart(i, replies) ==
    /\ wpc[i] = "queued"
    /\ \E reply \in AskMeta(urls[i], replies) :
          /\ content_type' = [content_type EXCEPT ![i] = GetInfoResult(urls[i], reply).kind]
          /\ cache' = GetInfoCache(urls[i], reply)
          /\ wpc' = [wpc EXCEPT ![i] = IF Raised(GetInfoResult(urls[i], reply))
                                       THEN "raised" ELSE "running"]
          /\ meta_calls' =
                IF FetchesTitle(GetInfoResult(urls[i], reply))
                THEN CountCall(CountGetInfo(meta_calls, urls[i]), "title", urls[i])
                ELSE CountGetInfo(meta_calls, urls[i])
    /\ UNCHANGED i_last
    /\ attempt' = [attempt EXCEPT ![i] = 1]
    /\ last_exception' = [last_exception EXCEPT ![i] = "None"]
    /\ UNCHANGED <<outcome, dl_log, sleeps>>

\* lines 200-257: one pass of the retry loop up to its return or its sleep
WorkerAttempt(i, reply) ==
    /\ wpc[i] = "running"
    /\ dl_log' = [dl_log EXCEPT ![i] = Append(@, reply)]
    /\ IF Raises(reply)
       THEN /\ last_exception' = [last_exception EXCEPT ![i] = reply.msg]
            /\ IF RetryAgain(attempt[i])
               THEN /\ wpc' = [wpc EXCEPT ![i] = "sleeping"]
                    /\ sleeps' = [sleeps EXCEPT ![i] = Append(@, RetryDelay(attempt[i]))]
                    /\ UNCHANGED outcome
               ELSE /\ wpc' = [wpc EXCEPT ![i] = "returned"]
                    /\ outcome' = [outcome EXCEPT ![i] = <<ExhaustedOutcome(i, last_exception'[i])>>]
                    /\ UNCHANGED sleeps
       ELSE /\ wpc' = [wpc EXCEPT ![i] = "returned"]
            /\ outcome' = [outcome EXCEPT ![i] = <<ReturnedOutcome(i, reply)>>]
            /\ UNCHANGED <<last_exception, sleeps>>
    /\ UNCHANGED <<attempt, content_type, cache, i_last, meta_calls>>

\* line 250 returns and line 199 advances the loop
WorkerWake(i) ==
    /\ wpc[i] = "sleeping"
    /\ IF attempt[i] + 1 <= MAX_RETRIES
       THEN /\ attempt' = [attempt EXCEPT ![i] = @ + 1]
            /\ wpc' = [wpc EXCEPT ![i] = "running"]
            /\ UNCHANGED outcome
       ELSE /\ wpc' = [wpc EXCEPT ![i] = "returned"]
            /\ outcome' = [outcome EXCEPT ![i] = <<UnexpectedOutcome(i)>>]
            /\ UNCHANGED attempt
    /\ UNCHANGED <<last_exception, content_type, dl_log, sleeps, cache, i_last, meta_calls>>

(***************************************************************************)
(* HistoryManager (src/tea/history.py).  A history is Python's insertion-  *)
(* ordered dict date -> list of entries: a sequence of [date, downloads].  *)
(***************************************************************************)
MissingFile == [kind |-> "missing", data |-> <<>>]
CorruptFile == [kind |-> "corrupt", data |-> <<>>]
JsonFile(h) == [kind |-> "json", data |-> h]

\* what open(path, 'w') and json.dump may do: succeed, fail before the file is
\* touched, or fail after it was truncated
SaveOutcomes == {"ok", "open_fail", "write_fail"}

\* the HistoryManager instances that share the history file: the one a
\* DownloadService holds and one more (every legacy function of lines 236-269
\* builds its own)
Managers == {"service", "other"}
ServiceManager == "service"

\* a call record: who called what, what it returned, and what open/json.dump
\* did when the call saved ("none" when it did not save)
NoCall == [op |-> "none", by |-> "none", url |-> <<>>, ret |-> FALSE, entry |-> <<>>,
           io |-> "none"]

Entry(url, title, path, now) ==
    [url |-> url, title |-> title, output_path |-> path, timestamp |-> now]

RECURSIVE Flatten(_)
\* the entries of a history in iteration order
Flatten(h) == IF h = <<>> THEN <<>> ELSE Head(h).downloads \o Flatten(Tail(h))

TotalEntries(h) == Len(Flatten(h))

DatesOf(h) == {h[k].date : k \in DOMAIN h}

\* faulty variant: a file that cannot be read leaves self._history as it was
LoadKeepsMemory(file) ==
    IF file.kind = "json" THEN file.data ELSE hist_mem[ServiceManager]

\* load(), lines 36-56: the dict a file yields
Load(file) == IF file.kind = "json" THEN file.data ELSE <<>>

\* save(), lines 58-72: the file left behind
SaveFile(mem, file, io) ==
    CASE io = "ok" -> JsonFile(mem)
      [] io = "open_fail" -> file
      [] OTHER -> CorruptFile

\* save(), lines 68 and 72: its return value
SaveRet(io) == io = "ok"

\* faulty variant: only a failing open is caught; what json.dump raises leaves
\* save()
SaveCatchesOpenOnly(io) == io # "write_fail"

\* save(), lines 65 and 69: `except Exception` catches whatever open and
\* json.dump raise
SaveCatches(io) == TRUE

\* add(), lines 90-98
AppendEntry(h, date, e) ==
    IF date \in DatesOf(h)
    THEN [k \in DOMAIN h |->
            IF h[k].date = date
            THEN [date |-> date, downloads |-> Append(h[k].downloads, e)]
            ELSE h[k]]
    ELSE Append(h, [date |-> date, downloads |-> <<e>>])

\* add(), lines 86-98: self._history before the save
AddMem(file, url, title, path, now) ==
    AppendEntry(Load(file), now, Entry(url, title, path, now))

\* faulty variant: only the first date partition is scanned
FirstMatchFirstDate(h, url) ==
    LET es == IF h = <<>> THEN <<>> ELSE Head(h).downloads
        hits == {k \in DOMAIN es : es[k].url = url}
    IN  IF hits = {} THEN <<>>
        ELSE <<es[CHOOSE k \in hits : \A m \in hits : k <= m]>>

\* is_downloaded(), lines 114-118: the first entry with the URL, if any
FirstMatch(h, url) ==
    LET es == Flatten(h)
        hits == {k \in DOMAIN es : es[k].url = url}
    IN  IF hits = {} THEN <<>>
        ELSE <<es[CHOOSE k \in hits : \A m \in hits : k <= m]>>

\* faulty variant: only the most recent date partition is filtered
DropUrlLastDate(h, url) ==
    [k \in DOMAIN h |->
        IF k = Len(h)
        THEN [date |-> h[k].date,
              downloads |-> SelectSeq(h[k].downloads, LAMBDA d : d.url # url)]
        ELSE h[k]]

\* remove(), lines 133-135
DropUrl(h, url) ==
    [k \in DOMAIN h |->
        [date |-> h[k].date,
         downloads |-> SelectSeq(h[k].downloads, LAMBDA d : d.url # url)]]

\* remove(), lines 137-138
Found(h, url) ==
    \E k \in DOMAIN h : Len(DropUrl(h, url)[k].downloads) < Len(h[k].downloads)

\* faulty variant: emptied date partitions are kept
PruneNothing(h) == h

\* remove(), lines 141-145
Prune(h) == SelectSeq(h, LAMBDA p : p.downloads # <<>>)

\* get_stats(), lines 214-227
Stats(h, now) ==
    [total_downloads |-> TotalEntries(h),
     unique_days |-> Len(h),
     urls_today |-> Len(Flatten(SelectSeq(h, LAMBDA p : p.date = now)))]

\* one call of add(url, title, path) on instance m
HistoryAdd(m, url, title, path, io) ==
    LET mem == AddMem(hist_file, url, title, path, today)
    IN  /\ hist_mem' = [hist_mem EXCEPT ![m] = mem]
        /\ hist_file' = SaveFile(mem, hist_file, io)
        /\ h_last' = [op |-> "add", by |-> m, url |-> url, ret |-> SaveRet(io),
                      entry |-> <<>>, io |-> io]
        /\ h_prev' = h_last

\* faulty variant: the query answers from self._history without reloading
HistoryIsDownloadedNoReload(m, url) ==
    LET hit == FirstMatch(hist_mem[m], url)
    IN  /\ h_last' = [op |-> "is_downloaded", by |-> m, url |-> url,
                      ret |-> hit # <<>>, entry |-> hit, io |-> "none"]
        /\ h_prev' = h_last
        /\ UNCHANGED <<hist_file, hist_mem>>

\* one call of is_downloaded(url) on instance m
HistoryIsDownloaded(m, url) ==
    LET mem == Load(hist_file)
        hit == FirstMatch(mem, url)
    IN  /\ hist_mem' = [hist_mem EXCEPT ![m] = mem]
        /\ h_last' = [op |-> "is_downloaded", by |-> m, url |-> url,
                      ret |-> hit # <<>>, entry |-> hit, io |-> "none"]
        /\ h_prev' = h_last
        /\ UNCHANGED hist_file

\* one call of remove(url) on instance m
HistoryRemove(m, url, io) ==
    LET loaded == Load(hist_file)
        mem == Prune(DropUrl(loaded, url))
    IN  /\ hist_mem' = [hist_mem EXCEPT ![m] = mem]
        /\ IF Found(loaded, url)
           THEN /\ hist_file' = SaveFile(mem, hist_file, io)
                /\ h_last' = [op |-> "remove", by |-> m, url |-> url,
                              ret |-> SaveRet(io), entry |-> <<>>, io |-> io]
           ELSE /\ hist_file' = hist_file
                /\ h_last' = [op |-> "remove", by |-> m, url |-> url,
                              ret |-> FALSE, entry |-> <<>>, io |-> "none"]
        /\ h_prev' = h_last

\* one call of clear() on instance m
HistoryClear(m, io) ==
    /\ hist_mem' = [hist_mem EXCEPT ![m] = <<>>]
    /\ hist_file' = SaveFile(<<>>, hist_file, io)
    /\ h_last' = [op |-> "clear", by |-> m, url |-> <<>>, ret |-> SaveRet(io),
                  entry |-> <<>>, io |-> io]
    /\ h_prev' = h_last

\* one call of get_stats() on instance m; the dict returned is in entry
HistoryGetStats(m) ==
    LET mem == Load(hist_file)
    IN  /\ hist_mem' = [hist_mem EXCEPT ![m] = mem]
        /\ h_last' = [op |-> "get_stats", by |-> m, url |-> <<>>, ret |-> TRUE,
                      entry |-> <<Stats(mem, today)>>, io |-> "none"]
        /\ h_prev' = h_last
        /\ UNCHANGED hist_file

(***************************************************************************)
(* DownloadService.download (src/tea/downloader.py:266-339) and            *)
(* _print_summary (354-376)                                                *)
(***************************************************************************)
Tasks == DOMAIN urls

\* faulty variant: every outcome is added to the history
ShouldRecordAlways(result) == TRUE

\* line 334: the outcomes download() adds to the history
ShouldRecord(result) == result.success

\* faulty variant: the loop is left after the first future
LoopDoneEarly(i) == TRUE

\* lines 329 and 338: as_completed is exhausted once the future of task i, the
\* last one outstanding, has been handled
LoopDone(i) == \A j \in Tasks \ {i} : wpc[j] = "collected"

\* faulty variant: one pool thread per URL
PoolSizePerUrl == Len(urls)

\* faulty variant: the pool size is off by one
PoolSizeMinusOne == max_workers - 1

\* ThreadPoolExecutor(max_workers=max_workers), line 323
PoolSize == max_workers

\* the download_single_video calls that have started and not returned
InFlight == {i \in Tasks : wpc[i] \in {"running", "sleeping"}}

\* the executor's work queue is first in, first out
QueueHead(i) == wpc[i] = "queued" /\ \A j \in Tasks : j < i => wpc[j] # "queued"

RECURSIVE SumCount(_)
\* sum(r.get('count', 1) for r in rs): every outcome has a count key
SumCount(rs) == IF rs = <<>> THEN 0 ELSE Head(rs).count + SumCount(Tail(rs))

\* faulty variant: only the failures collected before the first success count
FailedDownloadsLeading(rs) ==
    SelectSeq(SubSeq(rs, 1, CHOOSE n \in 0 .. Len(rs) :
                               /\ \A k \in 1 .. n : ~rs[k].success
                               /\ n < Len(rs) => rs[n + 1].success),
              LAMBDA r : TRUE)

\* lines 360-361
SuccessfulDownloads(rs) == SelectSeq(rs, LAMBDA r : r.success)
FailedDownloads(rs) == SelectSeq(rs, LAMBDA r : ~r.success)

\* line 364
TotalFailedCount(rs) == SumCount(FailedDownloads(rs))

\* lines 354-376: what _print_summary prints
PrintSummary(rs) ==
    [successful |-> SumCount(SuccessfulDownloads(rs)),
     failed |-> TotalFailedCount(rs),
     failed_urls |-> [k \in DOMAIN FailedDownloads(rs) |->
                        [url |-> FailedDownloads(rs)[k].url,
                         reason |-> FailedDownloads(rs)[k].message]]]

\* lines 302-303: get_content_type on the next URL; the second pass over the
\* URLs (line 303) only hits the cache the first one filled
Preflight(replies) ==
    /\ cpc = "preflight"
    /\ pidx < Len(urls)
    /\ pidx' = pidx + 1
    /\ \E reply \in AskMeta(urls[pidx + 1], replies) :
          /\ cache' = GetInfoCache(urls[pidx + 1], reply)
          /\ cpc' = IF Raised(GetInfoResult(urls[pidx + 1], reply))
                    THEN "raised" ELSE cpc
    /\ meta_calls' = CountGetInfo(meta_calls, urls[pidx + 1])
    /\ UNCHANGED <<i_last, urls, max_workers, nsub, results, summary>>
    /\ UNCHANGED workerVars
    /\ UNCHANGED histVars
    /\ UNCHANGED extVars

\* lines 304-323: the content summary is printed and the executor is created;
\* ThreadPoolExecutor raises ValueError when max_workers <= 0
CreatePool ==
    /\ cpc = "preflight"
    /\ pidx = Len(urls)
    /\ cpc' = IF PoolSize <= 0 THEN "raised"
              ELSE IF Len(urls) = 0 THEN "summary" ELSE "submit"
    /\ UNCHANGED <<urls, max_workers, pidx, nsub, results, summary>>
    /\ UNCHANGED infoVars
    /\ UNCHANGED workerVars
    /\ UNCHANGED histVars
    /\ UNCHANGED extVars

\* lines 324-327: executor.submit for the next URL
Submit ==
    /\ cpc = "submit"
    /\ nsub < Len(urls)
    /\ nsub' = nsub + 1
    /\ wpc' = [wpc EXCEPT ![nsub + 1] = "queued"]
    /\ cpc' = IF nsub + 1 = Len(urls) THEN "collect" ELSE "submit"
    /\ UNCHANGED <<urls, max_workers, pidx, results, summary>>
    /\ UNCHANGED <<attempt, last_exception, content_type, outcome, dl_log, sleeps>>
    /\ UNCHANGED infoVars
    /\ UNCHANGED histVars
    /\ UNCHANGED extVars

\* a pool thread takes the head of the work queue and calls download_single_video
Start(i, replies) ==
    /\ cpc \in {"submit", "collect"}
    /\ QueueHead(i)
    /\ Cardinality(InFlight) < PoolSize
    /\ WorkerStart(i, replies)
    /\ UNCHANGED coordVars
    /\ UNCHANGED histVars
    /\ UNCHANGED extVars

Attempt(i, reply) ==
    /\ WorkerAttempt(i, reply)
    /\ UNCHANGED coordVars
    /\ UNCHANGED histVars
    /\ UNCHANGED extVars

Wake(i) ==
    /\ WorkerWake(i)
    /\ UNCHANGED coordVars
    /\ UNCHANGED histVars
    /\ UNCHANGED extVars

\* lines 329-336: as_completed yields a finished future; its result is
\* recorded and, on success, added to the history; an exception that left
\* add() would leave download()
Collect(i, io) ==
    /\ cpc = "collect"
    /\ wpc[i] = "returned"
    /\ LET result == outcome[i][1]
       IN  /\ results' = Append(results, result)
           /\ IF ShouldRecord(result)
              THEN /\ HistoryAdd(ServiceManager, result.url, result.title, OutputPath, io)
                   /\ add_log' = Append(add_log, [task |-> i, url |-> result.url,
                                                   title |-> result.title,
                                                   ret |-> SaveRet(io)])
              ELSE UNCHANGED <<hist_file, hist_mem, h_last, h_prev, add_log>>
    /\ wpc' = [wpc EXCEPT ![i] = "collected"]
    /\ cpc' = IF ShouldRecord(outcome[i][1]) /\ ~SaveCatches(io) THEN "raised"
              ELSE IF LoopDone(i) THEN "summary" ELSE "collect"
    /\ UNCHANGED <<urls, max_workers, pidx, nsub, summary, today>>
    /\ UNCHANGED <<attempt, last_exception, content_type, outcome, dl_log, sleeps>>
    /\ UNCHANGED infoVars
    /\ UNCHANGED extVars

\* line 339
Summarize ==
    /\ cpc = "summary"
    /\ summary' = <<PrintSummary(results)>>
    /\ cpc' = "done"
    /\ UNCHANGED <<urls, max_workers, pidx, nsub, results>>
    /\ UNCHANGED workerVars
    /\ UNCHANGED infoVars
    /\ UNCHANGED histVars
    /\ UNCHANGED extVars

(***************************************************************************)
(* ConfigManager (src/tea/config.py).  A JSON value is [t, n, s]: its type, *)
(* and its number or its string.  A configuration is the pair of the keys   *)
(* concurrent_downloads and duplicate_action; a key a file omits is Absent. *)
(***************************************************************************)
DEFAULT_CONCURRENT_WORKERS == 3
VALID_DUPLICATE_ACTIONS == {"ask", "download", "skip"}

JInt(n) == [t |-> "int", n |-> n, s |-> ""]
JStr(s) == [t |-> "str", n |-> 0, s |-> s]
Absent == [t |-> "absent", n |-> 0, s |-> ""]

ConfigKeys == {"concurrent_downloads", "duplicate_action"}

DEFAULT_CONFIG ==
    [concurrent_downloads |-> JInt(DEFAULT_CONCURRENT_WORKERS),
     duplicate_action |-> JStr("ask")]

\* validate_config, lines 52-71: whether a value of a key passes
ValidValue(key, v) ==
    IF key = "concurrent_downloads"
    THEN v.t = "int" /\ 1 <= v.n /\ v.n <= 5
    ELSE v.t = "str" /\ v.s \in VALID_DUPLICATE_ACTIONS

\* validate_config(config) raises ValidationError
ValidateRaises(config) ==
    \E key \in ConfigKeys : config[key] # Absent /\ ~ValidValue(key, config[key])

\* dict.update: the keys the second dict holds replace those of the first
DictUpdate(config, updates) ==
    [key \in ConfigKeys |-> IF updates[key] = Absent THEN config[key] ELSE updates[key]]

\* lines 142-149: the default replaces each value that fails validation
ReapplyDefaults(config) ==
    [key \in ConfigKeys |->
        IF ValidValue(key, config[key]) THEN config[key] ELSE DEFAULT_CONFIG[key]]

\* src/tea/exceptions.py:11 and 73: ValidationError derives from TeaError, which
\* derives from Exception, so `except ValueError` does not catch it
ValidationErrorIsValueError == FALSE

\* _load(), lines 126-158: self._config after loading a file
LoadConfig(file) ==
    IF file.kind # "json" THEN DEFAULT_CONFIG
    ELSE LET merged == DictUpdate(DEFAULT_CONFIG, file.data)
         IN  IF ValidateRaises(merged) /\ ValidationErrorIsValueError
             THEN ReapplyDefaults(merged)
             ELSE merged

\* save(), lines 164-184: the file left behind; validate_config runs first and
\* what it raises is caught like an I/O error
SaveConfigFile(config, file, io) ==
    IF ValidateRaises(config) THEN file
    ELSE CASE io = "ok" -> JsonFile(config)
           [] io = "open_fail" -> file
           [] OTHER -> CorruptFile

SaveConfigRet(config, io) == ~ValidateRaises(config) /\ io = "ok"

\* ConfigManager(path): _load(), and save() when there is no file (lines 159-162)
NewConfigManager(file, io) ==
    /\ cfg_mem' = LoadConfig(file)
    /\ cfg_file' = IF file.kind = "missing"
                   THEN SaveConfigFile(DEFAULT_CONFIG, file, io) ELSE file
    /\ c_last' = [op |-> "load", raised |-> FALSE, saved |-> FALSE]

\* update(updates), lines 219-236; set(key, value), lines 199-217, is the update
\* of one key
ConfigUpdate(updates, io) ==
    IF ValidateRaises(updates)
    THEN /\ c_last' = [op |-> "update", raised |-> TRUE, saved |-> FALSE]
         /\ UNCHANGED <<cfg_mem, cfg_file>>
    ELSE /\ cfg_mem' = DictUpdate(cfg_mem, updates)
         /\ cfg_file' = SaveConfigFile(cfg_mem', cfg_file, io)
         /\ c_last' = [op |-> "update", raised |-> FALSE,
                       saved |-> SaveConfigRet(cfg_mem', io)]

ConfigSet(key, value, io) ==
    ConfigUpdate([k \in ConfigKeys |-> IF k = key THEN value ELSE Absent], io)

\* a ConfigManager constructed on one of the files, whose creation of a missing
\* file succeeded
CfgInit(files) ==
    \E f \in files :
        /\ cfg_mem = LoadConfig(f)
        /\ cfg_file = (IF f.kind = "missing" THEN JsonFile(DEFAULT_CONFIG) ELSE f)
        /\ c_last = [op |-> "load", raised |-> FALSE, saved |-> FALSE]

(***************************************************************************)
(* CLI (src/tea/cli.py): _interactive_mode, _handle_duplicates, _batch_mode *)
(***************************************************************************)
\* config.duplicate_action, src/tea/config.py:259-261: the value as the
\* comparisons of _handle_duplicates see it
DuplicateAction(config) ==
    IF config["duplicate_action"].t = "str" THEN config["duplicate_action"].s
    ELSE "other"

\* what the user may type at the prompt; "2" stands for every other input
Choices == {"1", "2", "3", "4", "5"}

Decide(keep, remove, set, asked) ==
    [keep |-> keep, remove |-> remove, set |-> set, asked |-> asked]

\* faulty variant: choice 3 keeps the URL without calling remove
DuplicateDecisionNoRemove(policy, hit, choice) ==
    IF ~hit THEN Decide(TRUE, FALSE, "none", FALSE)
    ELSE IF policy = "download" THEN Decide(TRUE, FALSE, "none", FALSE)
    ELSE IF policy = "skip" THEN Decide(FALSE, FALSE, "none", FALSE)
    ELSE CASE choice = "1" -> Decide(TRUE, FALSE, "none", TRUE)
           [] choice = "3" -> Decide(TRUE, FALSE, "none", TRUE)
           [] choice = "4" -> Decide(TRUE, FALSE, "download", TRUE)
           [] choice = "5" -> Decide(FALSE, FALSE, "skip", TRUE)
           [] OTHER -> Decide(FALSE, FALSE, "none", TRUE)

\* faulty variant: a duplicate is kept under the skip policy
DuplicateDecisionSkipKeeps(policy, hit, choice) ==
    IF ~hit THEN Decide(TRUE, FALSE, "none", FALSE)
    ELSE IF policy = "download" THEN Decide(TRUE, FALSE, "none", FALSE)
    ELSE IF policy = "skip" THEN Decide(TRUE, FALSE, "none", FALSE)
    ELSE CASE choice = "1" -> Decide(TRUE, FALSE, "none", TRUE)
           [] choice = "3" -> Decide(TRUE, TRUE, "none", TRUE)
           [] choice = "4" -> Decide(TRUE, FALSE, "download", TRUE)
           [] choice = "5" -> Decide(FALSE, FALSE, "skip", TRUE)
           [] OTHER -> Decide(FALSE, FALSE, "none", TRUE)

\* lines 225-267: what one pass of the loop does with a URL: whether it is
\* kept, whether remove is called, what duplicate_action is set to, and whether
\* the user was asked
DuplicateDecision(policy, hit, choice) ==
    IF ~hit THEN Decide(TRUE, FALSE, "none", FALSE)
    ELSE IF policy = "download" THEN Decide(TRUE, FALSE, "none", FALSE)
    ELSE IF policy = "skip" THEN Decide(FALSE, FALSE, "none", FALSE)
    ELSE CASE choice = "1" -> Decide(TRUE, FALSE, "none", TRUE)
           [] choice = "3" -> Decide(TRUE, TRUE, "none", TRUE)
           [] choice = "4" -> Decide(TRUE, FALSE, "download", TRUE)
           [] choice = "5" -> Decide(FALSE, FALSE, "skip", TRUE)
           [] OTHER -> Decide(FALSE, FALSE, "none", TRUE)

\* line 219: _handle_duplicates reads the policy once
DupBegin ==
    /\ cpc = "cli"
    /\ mode = "interactive"
    /\ dup_action' = DuplicateAction(cfg_mem)
    /\ cpc' = "dup_query"
    /\ UNCHANGED <<urls, max_workers, pidx, nsub, results, summary>>
    /\ UNCHANGED <<mode, cli_urls, didx, to_download, decisions, hist0>>
    /\ UNCHANGED <<workerVars, infoVars, histVars, use_ai, raceVars, cfgVars>>

\* line 224: is_downloaded on the next URL
DupQuery ==
    /\ cpc = "dup_query"
    /\ didx < Len(cli_urls)
    /\ HistoryIsDownloaded(ServiceManager, cli_urls[didx + 1])
    /\ cpc' = "dup_decide"
    /\ UNCHANGED <<urls, max_workers, pidx, nsub, results, summary, today, add_log>>
    /\ UNCHANGED <<workerVars, infoVars, use_ai, raceVars, cfgVars, cliVars>>

\* lines 226-267: the rest of the pass, with the answer typed at the prompt
\* when there is one, and the outcome of the save of remove when it is called
DupDecide(choice, io) ==
    /\ cpc = "dup_decide"
    /\ LET url == cli_urls[didx + 1]
           d == DuplicateDecision(dup_action, h_last.ret, choice)
       IN  /\ d.asked \/ choice = "2"
           /\ d.remove \/ io = "ok"
           /\ to_download' = IF d.keep THEN Append(to_download, url) ELSE to_download
           /\ IF d.remove
              THEN HistoryRemove(ServiceManager, url, io)
              ELSE UNCHANGED <<hist_file, hist_mem, h_last, h_prev>>
           /\ IF d.set # "none"
              THEN ConfigSet("duplicate_action", JStr(d.set), "ok")
              ELSE UNCHANGED cfgVars
           /\ decisions' = Append(decisions,
                 [url |-> url, hit |-> h_last.ret, asked |-> d.asked,
                  choice |-> IF d.asked THEN choice ELSE "-", keep |-> d.keep,
                  removed |-> d.remove /\ SaveRet(io)])
    /\ didx' = didx + 1
    /\ cpc' = "dup_query"
    /\ UNCHANGED <<urls, max_workers, pidx, nsub, results, summary, today, add_log>>
    /\ UNCHANGED <<mode, cli_urls, dup_action, hist0>>
    /\ UNCHANGED <<workerVars, infoVars, use_ai, raceVars>>

\* the list handed to download(): lines 156 and 206 in interactive mode, lines
\* 557 and 578-581 in batch mode
DownloadList == IF mode = "batch" THEN cli_urls ELSE to_download

\* lines 158-160 and 170-210, or 559-581: the run ends when nothing is left,
\* else download() is called with 1 worker, or with the number typed when there
\* are several URLs
CliDownload(workers) ==
    /\ \/ cpc = "dup_query" /\ didx = Len(cli_urls)
       \/ cpc = "cli" /\ mode = "batch"
    /\ Len(DownloadList) <= 1 => workers = 1
    /\ IF DownloadList = <<>>
       THEN /\ cpc' = "exit"
            /\ UNCHANGED <<urls, max_workers, workerVars>>
       ELSE /\ cpc' = "preflight"
            /\ urls' = DownloadList
            /\ max_workers' = workers
            /\ wpc' = [i \in DOMAIN DownloadList |-> "new"]
            /\ attempt' = [i \in DOMAIN DownloadList |-> 0]
            /\ last_exception' = [i \in DOMAIN DownloadList |-> "None"]
            /\ content_type' = [i \in DOMAIN DownloadList |-> "unset"]
            /\ outcome' = [i \in DOMAIN DownloadList |-> <<>>]
            /\ dl_log' = [i \in DOMAIN DownloadList |-> <<>>]
            /\ sleeps' = [i \in DOMAIN DownloadList |-> <<>>]
    /\ UNCHANGED <<pidx, nsub, results, summary>>
    /\ UNCHANGED <<infoVars, histVars, extVars>>

(***************************************************************************)
(* Specifications                                                          *)
(***************************************************************************)
EmptyCache == [u \in AllUrls |-> <<>>]

\* a fresh InfoExtractor
InfoInit ==
    /\ cache = EmptyCache
    /\ i_last = NoInfoCall
    /\ meta_calls = NoMetaCalls

\* no CLI runs
CliIdle ==
    /\ mode = "none"
    /\ cli_urls = <<>>
    /\ didx = 0
    /\ dup_action = "unread"
    /\ to_download = <<>>
    /\ decisions = <<>>
    /\ hist0 = MissingFile

\* no process is inside add()
RaceIdle ==
    /\ rpc = [m \in Managers |-> "idle"]
    /\ radd = [m \in Managers |-> <<>>]
    /\ fsize = 0

\* the default configuration (src/tea/constants.py:91-105): no AI filename
\* cleaning
ExtInit ==
    /\ use_ai = FALSE
    /\ RaceIdle
    /\ CfgInit({MissingFile})
    /\ CliIdle

TaskInit(n, pc) ==
    /\ wpc = [i \in 1..n |-> pc]
    /\ attempt = [i \in 1..n |-> 0]
    /\ last_exception = [i \in 1..n |-> "None"]
    /\ content_type = [i \in 1..n |-> "unset"]
    /\ outcome = [i \in 1..n |-> <<>>]
    /\ dl_log = [i \in 1..n |-> <<>>]
    /\ sleeps = [i \in 1..n |-> <<>>]

HistInit(files) ==
    /\ hist_file \in files
    /\ hist_mem = [m \in Managers |-> <<>>]
    /\ today = 1
    /\ add_log = <<>>
    /\ h_last = NoCall
    /\ h_prev = NoCall

\* validate_concurrent_workers(), src/tea/utils/security.py:272-286
ValidateConcurrentWorkers(value) == 1 <= value /\ value <= 5

\* the max_workers arguments download() may be called with: the callers other
\* than the CLI (download_youtube_content, lines 391-401) pass it on unchecked
WorkerArgs == -1 .. (MAX_CONCURRENT_WORKERS + 2)

\* what the CLI passes: 1, or what _select_concurrent returned
\* (src/tea/cli.py:170-172, 490-503, 570-572)
CliWorkerArgs == {w \in WorkerArgs : ValidateConcurrentWorkers(w)}

\* the locals of download(urls, max_workers=m) and of its workers at entry
DownloadInit(args, files) ==
    /\ max_workers \in args
    /\ cpc = "preflight"
    /\ pidx = 0
    /\ nsub = 0
    /\ results = <<>>
    /\ summary = <<>>
    /\ TaskInit(Len(urls), "new")
    /\ HistInit(files)

\* download(urls, max_workers=m), m among args, on a fresh service
BatchInit(args, files) ==
    /\ InfoInit
    /\ ExtInit
    /\ \E n \in 0..MaxUrls : urls = [i \in 1..n |-> UrlOf(i)]
    /\ DownloadInit(args, files)

\* download() called by the CLI
Init == BatchInit(CliWorkerArgs, {MissingFile})

Next ==
    \/ Preflight(MetaMock)
    \/ CreatePool
    \/ Submit
    \/ \E i \in Tasks : Start(i, MetaMock)
    \/ \E i \in Tasks : \E reply \in BatchDlReplies : Attempt(i, reply)
    \/ \E i \in Tasks : Wake(i)
    \/ \E i \in Tasks : Collect(i, "ok")
    \/ Summarize

Spec == Init /\ [][Next]_vars

\* download() called with any max_workers argument
InitPool == BatchInit(WorkerArgs, {MissingFile})

SpecPool == InitPool /\ [][Next]_vars

\* download() called by the CLI, sequentially or with the largest pool, while
\* the history file may be unreadable and any save may fail
InitFaulty ==
    BatchInit({w \in CliWorkerArgs : w = 1 \/ w = MAX_CONCURRENT_WORKERS},
              {MissingFile, CorruptFile})

NextFaulty ==
    \/ Preflight(MetaMock)
    \/ CreatePool
    \/ Submit
    \/ \E i \in Tasks : Start(i, MetaMock)
    \/ \E i \in Tasks : \E reply \in BatchDlReplies : Attempt(i, reply)
    \/ \E i \in Tasks : Wake(i)
    \/ \E i \in Tasks : \E io \in SaveOutcomes : Collect(i, io)
    \/ Summarize

SpecFaulty == InitFaulty /\ [][NextFaulty]_vars

\* download() called by the CLI on lists that may name a URL twice and mix
\* videos and playlists, with AI filename cleaning (use_ai_filename_cleaning
\* and a cleaner, src/tea/cli.py:187-196) on or off
MetaUrls == {UrlAAA, UrlPL}
MetaDlReplies == DlRaise({"Permanent error"}) \cup DlInfo({"Song"}, {MaxEntries}, {"video"})

InitMeta ==
    /\ InfoInit
    /\ use_ai \in BOOLEAN
    /\ RaceIdle
    /\ CfgInit({MissingFile})
    /\ CliIdle
    /\ \E n \in 0..MaxUrls : urls \in [1..n -> MetaUrls]
    /\ DownloadInit({w \in CliWorkerArgs : w = 1 \/ w = MAX_CONCURRENT_WORKERS},
                    {MissingFile})

NextMeta ==
    \/ Preflight(MetaMock)
    \/ CreatePool
    \/ Submit
    \/ \E i \in Tasks : Start(i, MetaMock)
    \/ \E i \in Tasks : \E reply \in MetaDlReplies : Attempt(i, reply)
    \/ \E i \in Tasks : Wake(i)
    \/ \E i \in Tasks : Collect(i, "ok")
    \/ Summarize

SpecMeta == InitMeta /\ [][NextMeta]_vars

\* download_single_video(url) called directly on a fresh service
InitWorker ==
    /\ InfoInit
    /\ ExtInit
    /\ \E u \in UrlSet : urls = <<u>>
    /\ max_workers = 1
    /\ cpc = "direct"
    /\ pidx = 0
    /\ nsub = 0
    /\ results = <<>>
    /\ summary = <<>>
    /\ TaskInit(1, "queued")
    /\ HistInit({MissingFile})

DirectStart ==
    /\ cpc = "direct"
    /\ WorkerStart(1, MetaAny)
    /\ UNCHANGED coordVars
    /\ UNCHANGED histVars
    /\ UNCHANGED extVars

NextWorker ==
    \/ DirectStart
    \/ \E reply \in DlReplies : Attempt(1, reply)
    \/ Wake(1)

SpecWorker == InitWorker /\ [][NextWorker]_vars

\* get_info / get_content_type called on a fresh InfoExtractor
InitInfo ==
    /\ InfoInit
    /\ ExtInit
    /\ urls = <<>>
    /\ max_workers = 1
    /\ cpc = "direct"
    /\ pidx = 0
    /\ nsub = 0
    /\ results = <<>>
    /\ summary = <<>>
    /\ TaskInit(0, "new")
    /\ HistInit({MissingFile})

IGetInfo(url) ==
    /\ InfoGetInfo(url, MetaAny)
    /\ UNCHANGED <<coordVars, workerVars, histVars>>
    /\ UNCHANGED extVars

IGetInfoNoCache(url) ==
    /\ InfoGetInfoNoCache(url, MetaAny)
    /\ UNCHANGED <<coordVars, workerVars, histVars>>
    /\ UNCHANGED extVars

IGetContentType(url) ==
    /\ InfoGetContentType(url, MetaAny)
    /\ UNCHANGED <<coordVars, workerVars, histVars>>
    /\ UNCHANGED extVars

NextInfo ==
    \/ \E u \in InfoInputs : IGetInfo(u)
    \/ \E u \in InfoInputs : IGetInfoNoCache(u)
    \/ \E u \in InfoInputs : IGetContentType(u)

SpecInfo == InitInfo /\ [][NextInfo]_vars

\* a HistoryManager on a history file that is missing or unreadable at first
InitHistory ==
    /\ InfoInit
    /\ ExtInit
    /\ urls = <<>>
    /\ max_workers = 1
    /\ cpc = "direct"
    /\ pidx = 0
    /\ nsub = 0
    /\ results = <<>>
    /\ summary = <<>>
    /\ TaskInit(0, "new")
    /\ HistInit({MissingFile, CorruptFile})

HistUrls == {UrlAAA, UrlBBB}

HAdd(m, url, title, io) ==
    /\ TotalEntries(Load(hist_file)) < MaxHistEntries
    /\ HistoryAdd(m, url, title, OutputPath, io)
    /\ UNCHANGED <<today, add_log>>
    /\ UNCHANGED <<coordVars, workerVars, infoVars>>
    /\ UNCHANGED extVars

HIsDownloaded(m, url) ==
    /\ HistoryIsDownloaded(m, url)
    /\ UNCHANGED <<today, add_log>>
    /\ UNCHANGED <<coordVars, workerVars, infoVars>>
    /\ UNCHANGED extVars

HRemove(m, url, io) ==
    /\ HistoryRemove(m, url, io)
    /\ UNCHANGED <<today, add_log>>
    /\ UNCHANGED <<coordVars, workerVars, infoVars>>
    /\ UNCHANGED extVars

HClear(m, io) ==
    /\ HistoryClear(m, io)
    /\ UNCHANGED <<today, add_log>>
    /\ UNCHANGED <<coordVars, workerVars, infoVars>>
    /\ UNCHANGED extVars

HGetStats(m) ==
    /\ HistoryGetStats(m)
    /\ UNCHANGED <<today, add_log>>
    /\ UNCHANGED <<coordVars, workerVars, infoVars>>
    /\ UNCHANGED extVars

\* midnight passes
Tick ==
    /\ today < MaxDate
    /\ today' = today + 1
    /\ UNCHANGED <<hist_file, hist_mem, add_log, h_last, h_prev>>
    /\ UNCHANGED <<coordVars, workerVars, infoVars>>
    /\ UNCHANGED extVars

NextHistory ==
    \/ \E u \in HistUrls, io \in SaveOutcomes : HAdd(ServiceManager, u, "Song", io)
    \/ \E u \in HistUrls : HIsDownloaded(ServiceManager, u)
    \/ \E u \in HistUrls, io \in SaveOutcomes : HRemove(ServiceManager, u, io)
    \/ \E io \in SaveOutcomes : HClear(ServiceManager, io)
    \/ HGetStats(ServiceManager)
    \/ Tick

SpecHistory == InitHistory /\ [][NextHistory]_vars

\* two HistoryManager instances on the same history file, one call at a time,
\* within one calendar date; a save succeeds or fails before the file is touched
SharedSaveOutcomes == {"ok", "open_fail"}

NextShared ==
    \/ \E m \in Managers, u \in HistUrls, io \in SharedSaveOutcomes : HAdd(m, u, "Song", io)
    \/ \E m \in Managers, u \in HistUrls : HIsDownloaded(m, u)
    \/ \E m \in Managers, u \in HistUrls, io \in SharedSaveOutcomes : HRemove(m, u, io)
    \/ \E m \in Managers, io \in SharedSaveOutcomes : HClear(m, io)

SpecShared == InitHistory /\ [][NextShared]_vars

(***************************************************************************)
(* Two processes, each with its own HistoryManager on the same history     *)
(* file, run add() once at the same time.  add() is load(), the append in   *)
(* memory, then save(): open(path, 'w'), which truncates the file, and      *)
(* json.dump plus the close, which write the text from offset 0.            *)
(***************************************************************************)
RECURSIVE EntriesLen(_)
\* the length of the text of a list of entries, counted in pieces: per entry
\* its url and one more for its other fields
EntriesLen(es) ==
    IF es = <<>> THEN 0 ELSE 1 + Len(Head(es).url) + EntriesLen(Tail(es))

RECURSIVE DumpLen(_)
\* the length of the text json.dump writes for a history: the braces, and per
\* date its key and its entries
DumpLen(h) ==
    IF h = <<>> THEN 1
    ELSE 1 + EntriesLen(Head(h).downloads) + DumpLen(Tail(h))

\* what the file holds after a process wrote the dump of mem from offset 0 over
\* a file of the given length: the dump, followed by what was beyond its end,
\* which no JSON parser accepts
WrittenFile(mem, size) ==
    IF DumpLen(mem) >= size THEN JsonFile(mem) ELSE CorruptFile

\* lines 86-98: load() and the append to self._history
RaceLoad(m, url) ==
    /\ rpc[m] = "idle"
    /\ hist_mem' = [hist_mem EXCEPT ![m] = AddMem(hist_file, url, "Song", OutputPath, today)]
    /\ radd' = [radd EXCEPT ![m] = url]
    /\ rpc' = [rpc EXCEPT ![m] = "loaded"]
    /\ UNCHANGED <<hist_file, fsize, today, add_log, h_last, h_prev>>
    /\ UNCHANGED <<coordVars, workerVars, infoVars, use_ai, cfgVars, cliVars>>

\* line 61: open(path, 'w') leaves an empty file
RaceOpen(m) ==
    /\ rpc[m] = "loaded"
    /\ hist_file' = CorruptFile
    /\ fsize' = 0
    /\ rpc' = [rpc EXCEPT ![m] = "opened"]
    /\ UNCHANGED <<hist_mem, radd, today, add_log, h_last, h_prev>>
    /\ UNCHANGED <<coordVars, workerVars, infoVars, use_ai, cfgVars, cliVars>>

\* lines 62-63: json.dump and the close of the file
RaceWrite(m) ==
    /\ rpc[m] = "opened"
    /\ hist_file' = WrittenFile(hist_mem[m], fsize)
    /\ fsize' = IF DumpLen(hist_mem[m]) >= fsize THEN DumpLen(hist_mem[m]) ELSE fsize
    /\ rpc' = [rpc EXCEPT ![m] = "done"]
    /\ UNCHANGED <<hist_mem, radd, today, add_log, h_last, h_prev>>
    /\ UNCHANGED <<coordVars, workerVars, infoVars, use_ai, cfgVars, cliVars>>

RaceUrls == {UrlAAA, UrlPL}

\* the history file before the two calls: none, an unreadable one, or one with
\* an entry of an earlier date
RaceFiles ==
    {MissingFile, CorruptFile} \cup
    {JsonFile(<<[date |-> 0, downloads |-> <<Entry(u, "Song", OutputPath, 0)>>]>>) :
        u \in RaceUrls}

InitRace ==
    /\ InfoInit
    /\ ExtInit
    /\ urls = <<>>
    /\ max_workers = 1
    /\ cpc = "direct"
    /\ pidx = 0
    /\ nsub = 0
    /\ results = <<>>
    /\ summary = <<>>
    /\ TaskInit(0, "new")
    /\ HistInit(RaceFiles)

NextRace ==
    \/ \E m \in Managers, u \in RaceUrls : RaceLoad(m, u)
    \/ \E m \in Managers : RaceOpen(m)
    \/ \E m \in Managers : RaceWrite(m)

SpecRace == InitRace /\ [][NextRace]_vars

(***************************************************************************)
(* A ConfigManager over the runs of the program: between two runs the user  *)
(* may edit the config file.                                                *)
(***************************************************************************)
\* the values a file or a caller may give a key
ConfigValues ==
    {Absent, JInt(1), JInt(MAX_CONCURRENT_WORKERS), JInt(MAX_CONCURRENT_WORKERS + 4),
     JStr("skip"), JStr("always")}

\* the config files: none, one that is no JSON, or a JSON object
ConfigFiles ==
    {MissingFile, CorruptFile} \cup {JsonFile(d) : d \in [ConfigKeys -> ConfigValues]}

InitConfig ==
    /\ InfoInit
    /\ use_ai = FALSE
    /\ RaceIdle
    /\ CfgInit({MissingFile})
    /\ CliIdle
    /\ urls = <<>>
    /\ max_workers = 1
    /\ cpc = "direct"
    /\ pidx = 0
    /\ nsub = 0
    /\ results = <<>>
    /\ summary = <<>>
    /\ TaskInit(0, "new")
    /\ HistInit({MissingFile})

RestOfConfig == <<coordVars, workerVars, infoVars, histVars, use_ai, raceVars, cliVars>>

\* the next run starts: on the file as the last run left it, or as edited
CfgRestart(file, io) ==
    /\ NewConfigManager(file, io)
    /\ UNCHANGED RestOfConfig

CfgSet(key, value, io) ==
    /\ ConfigSet(key, value, io)
    /\ UNCHANGED RestOfConfig

CfgUpdate(updates, io) ==
    /\ ConfigUpdate(updates, io)
    /\ UNCHANGED RestOfConfig

NextConfig ==
    \/ \E f \in ConfigFiles \cup {cfg_file}, io \in SaveOutcomes : CfgRestart(f, io)
    \/ \E key \in ConfigKeys, v \in ConfigValues \ {Absent}, io \in SaveOutcomes :
          CfgSet(key, v, io)
    \/ \E d \in [ConfigKeys -> ConfigValues], io \in SaveOutcomes : CfgUpdate(d, io)

SpecConfig == InitConfig /\ [][NextConfig]_vars

(***************************************************************************)
(* One run of the CLI, interactive or batch, on a history file and a config *)
(* file that earlier runs left                                              *)
(***************************************************************************)
CliLists == {<<UrlAAA>>, <<UrlAAA, UrlBBB>>, <<UrlBBB, UrlAAA>>, <<UrlAAA, UrlAAA>>}

\* no history, or UrlAAA downloaded once, or on two dates
CliHistFiles ==
    {MissingFile,
     JsonFile(<<[date |-> 0, downloads |-> <<Entry(UrlAAA, "Song", OutputPath, 0)>>]>>),
     JsonFile(<<[date |-> 0, downloads |-> <<Entry(UrlAAA, "Song", OutputPath, 0)>>],
                [date |-> 1, downloads |-> <<Entry(UrlAAA, "Song", OutputPath, 1)>>]>>)}

\* no config file, one that sets the policy, or one with an invalid value for
\* another key
CliConfigFiles ==
    {MissingFile,
     JsonFile([concurrent_downloads |-> Absent, duplicate_action |-> JStr("skip")]),
     JsonFile([concurrent_downloads |-> Absent, duplicate_action |-> JStr("download")]),
     JsonFile([concurrent_downloads |-> JInt(MAX_CONCURRENT_WORKERS + 4),
               duplicate_action |-> Absent])}

CliDlReplies == DlRaise({"Permanent error"}) \cup DlInfo({"Song"}, {-1}, {"video"})

InitCli ==
    /\ InfoInit
    /\ use_ai = FALSE
    /\ RaceIdle
    /\ CfgInit(CliConfigFiles)
    /\ mode \in {"interactive", "batch"}
    /\ cli_urls \in CliLists
    /\ didx = 0
    /\ dup_action = "unread"
    /\ to_download = <<>>
    /\ decisions = <<>>
    /\ urls = <<>>
    /\ max_workers = 1
    /\ cpc = "cli"
    /\ pidx = 0
    /\ nsub = 0
    /\ results = <<>>
    /\ summary = <<>>
    /\ TaskInit(0, "new")
    /\ HistInit(CliHistFiles)
    /\ hist0 = hist_file

NextCli ==
    \/ DupBegin
    \/ DupQuery
    \/ \E choice \in Choices, io \in SharedSaveOutcomes : DupDecide(choice, io)
    \/ \E w \in {1, MAX_CONCURRENT_WORKERS} : CliDownload(w)
    \/ Preflight(MetaMock)
    \/ CreatePool
    \/ Submit
    \/ \E i \in Tasks : Start(i, MetaMock)
    \/ \E i \in Tasks : \E reply \in CliDlReplies : Attempt(i, reply)
    \/ \E i \in Tasks : Wake(i)
    \/ \E i \in Tasks : \E io \in SharedSaveOutcomes : Collect(i, io)
    \/ Summarize

SpecCli == InitCli /\ [][NextCli]_vars

(***************************************************************************)
(* Properties of download_single_video, checked under SpecWorker           *)
(***************************************************************************)
Returned(i) == wpc[i] \in {"returned", "collected"}
AllRaised(i) == \A k \in DOMAIN dl_log[i] : dl_log[i][k].r = "raise"
LastOf(seq) == seq[Len(seq)]

\* C1: a worker whose download calls all raise makes exactly 3 calls, sleeps
\* 2s after the 1st failure and 4s after the 2nd and not after the 3rd, and
\* returns a failure outcome (success False, count 0) that carries the message
\* of the last exception.
C1_RetryCeiling ==
    \A i \in Tasks :
        AllRaised(i) =>
            /\ Len(dl_log[i]) <= 3
            /\ Len(sleeps[i]) = (IF Len(dl_log[i]) = 3 THEN 2 ELSE Len(dl_log[i]))
            /\ \A k \in DOMAIN sleeps[i] : sleeps[i][k] = (IF k = 1 THEN 2 ELSE 4)
            /\ Len(dl_log[i]) = 3 => Returned(i)
            /\ (Returned(i) /\ dl_log[i] # <<>>) =>
                  /\ Len(dl_log[i]) = 3
                  /\ sleeps[i] = <<2, 4>>
                  /\ outcome[i] # <<>>
                  /\ outcome[i][1].success = FALSE
                  /\ outcome[i][1].count = 0
                  /\ LastOf(outcome[i][1].message) = dl_log[i][3].msg

C1_Witness ==
    \E i \in Tasks :
        /\ Returned(i) /\ AllRaised(i) /\ Len(dl_log[i]) = 3
        /\ dl_log[i][2].msg # dl_log[i][3].msg

\* C4: a download call that returns None ends the worker at once with a failure
\* outcome: it is the last call, and no sleep follows it.
C4_NoneShortCircuit ==
    \A i \in Tasks : \A k \in DOMAIN dl_log[i] :
        dl_log[i][k].r = "none" =>
            /\ k = Len(dl_log[i])
            /\ Returned(i)
            /\ outcome[i] # <<>>
            /\ outcome[i][1].success = FALSE
            /\ Len(sleeps[i]) = k - 1

C4_Witness ==
    \E i \in Tasks :
        /\ Len(dl_log[i]) = 2 /\ dl_log[i][1].r = "raise" /\ dl_log[i][2].r = "none"
        /\ Returned(i)

EmptyPlaylist(reply) ==
    reply.r = "info" /\ reply.type = "playlist" /\ reply.entries <= 0

\* C5: a download call that returns a playlist-typed result without entries ends
\* the worker at once with a failure outcome of count 0: it is the last call,
\* and no sleep follows it.
C5_EmptyPlaylistShortCircuit ==
    \A i \in Tasks : \A k \in DOMAIN dl_log[i] :
        EmptyPlaylist(dl_log[i][k]) =>
            /\ k = Len(dl_log[i])
            /\ Returned(i)
            /\ outcome[i] # <<>>
            /\ outcome[i][1].success = FALSE
            /\ outcome[i][1].count = 0
            /\ Len(sleeps[i]) = k - 1

C5_Witness ==
    \E i \in Tasks :
        /\ Len(dl_log[i]) = 2 /\ dl_log[i][1].r = "raise"
        /\ dl_log[i][2].type = "playlist" /\ dl_log[i][2].entries = 0
        /\ Returned(i)

\* C6: every outcome with success True has count >= 1: the number of entries of
\* a playlist-typed result, 1 for any other result.
C6_SuccessHasItems ==
    \A i \in Tasks :
        (outcome[i] # <<>> /\ outcome[i][1].success) =>
            /\ outcome[i][1].count >= 1
            /\ outcome[i][1].count =
                  (IF LastOf(dl_log[i]).type = "playlist"
                   THEN LastOf(dl_log[i]).entries ELSE 1)

C6_Witness ==
    \E i \in Tasks :
        /\ outcome[i] # <<>> /\ outcome[i][1].success
        /\ outcome[i][1].count = MaxEntries
        /\ Len(dl_log[i]) = 3

(***************************************************************************)
(* Properties of download(), checked under Spec                            *)
(***************************************************************************)
HasOutcome(i) == outcome[i] # <<>>
FailedTasks == {i \in Tasks : HasOutcome(i) /\ ~outcome[i][1].success}
SucceededTasks == {i \in Tasks : HasOutcome(i) /\ outcome[i][1].success}
AddsFor(i) == {k \in DOMAIN add_log : add_log[k].task = i}
Summarized == summary # <<>>

\* C2: when download() has finished a batch of N URLs of which K ended in a
\* failure outcome, the failure list has exactly K entries and exactly N-K
\* HistoryManager.add calls were made: one for each successful URL and none for
\* a failed one, for every pool size in 1..5 and every completion order.
C2_BatchCompleteness ==
    cpc = "done" =>
        /\ Summarized
        /\ Cardinality(FailedTasks) + Cardinality(SucceededTasks) = Len(urls)
        /\ Len(summary[1].failed_urls) = Cardinality(FailedTasks)
        /\ Len(add_log) = Len(urls) - Cardinality(FailedTasks)
        /\ \A i \in SucceededTasks :
              /\ Cardinality(AddsFor(i)) = 1
              /\ \A k \in AddsFor(i) : add_log[k].url = urls[i]
        /\ \A i \in FailedTasks : AddsFor(i) = {}

C2_Witness ==
    /\ cpc = "done"
    /\ Len(urls) = 2
    /\ Cardinality(FailedTasks) = 1
    /\ max_workers = 1
    /\ results[1].url = urls[2]

\* C3: the failed total of the final summary is the number of URLs whose
\* outcome is a failure (one URL that succeeds and one that fails: 1 successful
\* item, 1 failed item, the failed list holding the failing URL and a reason).
C3_FailedTotal ==
    cpc = "done" =>
        /\ summary[1].failed = Cardinality(FailedTasks)
        /\ \A k \in DOMAIN summary[1].failed_urls :
              /\ \E i \in FailedTasks : summary[1].failed_urls[k].url = urls[i]
              /\ summary[1].failed_urls[k].reason # <<>>

\* C7: the number of download_single_video calls that have started and not yet
\* returned never exceeds max_workers.
C7_WorkerBound == Cardinality(InFlight) <= max_workers

C7_Witness ==
    /\ Cardinality(InFlight) = max_workers
    /\ \E i \in Tasks : wpc[i] = "queued"

\* C8: the history is written for a URL only after its worker has returned a
\* success outcome and only before the summary is computed: each add is made
\* for a task that has returned with success, while no summary exists, and
\* once the summary exists every successful task has had its add.
C8_AddStep ==
    (add_log' # add_log \/ hist_file' # hist_file) =>
        /\ ~Summarized /\ summary' = summary /\ cpc = "collect"
        /\ Len(add_log') = Len(add_log) + 1
        /\ LET e == LastOf(add_log')
           IN  /\ wpc[e.task] = "returned"
               /\ HasOutcome(e.task)
               /\ outcome[e.task][1].success
               /\ e.url = urls[e.task]
               /\ \E d \in DOMAIN hist_file'.data :
                     LastOf(hist_file'.data[d].downloads).url = e.url

C8_AddsBeforeSummary ==
    Summarized => \A i \in SucceededTasks : AddsFor(i) # {}

C8_HistoryOrdering == [](C8_AddsBeforeSummary) /\ [][C8_AddStep]_vars

C8_Witness ==
    /\ Summarized
    /\ Len(add_log) = 2
    /\ add_log[1].task = 2

\* C9: download() attempts every URL whatever the outcomes of the others and
\* computes the summary only after every submitted task has completed: then
\* the recorded outcomes are as many as the URLs, every URL has had at least
\* one download call, and download() never raises.
C9_AttemptAllReportAll ==
    /\ cpc # "raised"
    /\ (cpc \in {"summary", "done"} \/ Summarized) =>
          /\ Len(results) = Len(urls)
          /\ nsub = Len(urls)
          /\ \A i \in Tasks : wpc[i] = "collected" /\ Len(dl_log[i]) >= 1

C9_Witness ==
    /\ Summarized
    /\ Len(urls) = 2
    /\ \E i, j \in Tasks :
          /\ Len(dl_log[i]) = 3 /\ AllRaised(i)
          /\ outcome[j][1].success
          /\ results[1] = outcome[i][1]

(***************************************************************************)
(* Properties of HistoryManager, checked under SpecHistory                 *)
(***************************************************************************)
AddThenQuery ==
    /\ h_last.op = "is_downloaded"
    /\ h_prev.op = "add"
    /\ h_prev.url = h_last.url

QueryHit ==
    /\ h_last.ret = TRUE
    /\ h_last.entry # <<>>
    /\ h_last.entry[1].url = h_last.url

\* C10 as stated: add(url, title, path) followed by is_downloaded(url) returns
\* (True, entry) with entry.url = url, for any history state.
C10_RoundTripAlways == AddThenQuery => QueryHit

\* C10 as amended: add(url, title, path) that returned True, followed by
\* is_downloaded(url), returns (True, entry) with entry.url = url; after an add
\* that returned False the query reports what the file holds.
C10_RoundTrip ==
    AddThenQuery =>
        /\ h_prev.ret => QueryHit
        /\ ~h_prev.ret => (h_last.ret <=> FirstMatch(Load(hist_file), h_last.url) # <<>>)

C10_Witness ==
    /\ AddThenQuery /\ h_prev.ret /\ QueryHit
    /\ Len(hist_file.data) = 2
    /\ hist_file.data[1].downloads[1].url # h_last.url

\* a step that is one call of remove(url): the record of the call is in h_last'
RemoveStep ==
    /\ h_last'.op = "remove"
    /\ h_prev' = h_last
    /\ today' = today

HoldsUrl(file, url) == \E k \in DOMAIN Flatten(Load(file)) : Flatten(Load(file))[k].url = url

\* the entries of the file with every entry of the URL taken out
Without(file, url) == SelectSeq(Flatten(Load(file)), LAMBDA d : d.url # url)

RemoveThenQuery ==
    /\ h_last.op = "is_downloaded"
    /\ h_prev.op = "remove"
    /\ h_prev.url = h_last.url

\* C11 as stated: remove(url) deletes every entry with that URL in every date
\* partition and no other entry, returns True exactly when the history held at
\* least one such entry, and a following is_downloaded(url) returns
\* (False, None).
C11_RemoveAlways ==
    /\ [][RemoveStep =>
            /\ h_last'.ret <=> HoldsUrl(hist_file, h_last'.url)
            /\ Flatten(Load(hist_file')) = Without(hist_file, h_last'.url)]_vars
    /\ [](RemoveThenQuery => (~h_last.ret /\ h_last.entry = <<>>))

\* C11 as amended: remove(url) returns True exactly when the history held an
\* entry with that URL and the save succeeded; then every entry with the URL is
\* gone from every date partition, every other entry is kept, and a following
\* is_downloaded(url) returns (False, None).  Without a match the file is left
\* alone; with a match and a failed save the file is what the failed save left
\* (unchanged, or unreadable), and the following is_downloaded(url) reports
\* what that file holds.
C11_Remove ==
    /\ [][RemoveStep =>
            LET u == h_last'.url
                matched == HoldsUrl(hist_file, u)
            IN  /\ h_last'.ret <=> (matched /\ h_last'.io = "ok")
                /\ h_last'.ret =>
                      /\ hist_file'.kind = "json"
                      /\ Flatten(hist_file'.data) = Without(hist_file, u)
                /\ ~matched => hist_file' = hist_file
                /\ (matched /\ h_last'.io = "open_fail") => hist_file' = hist_file
                /\ (matched /\ h_last'.io = "write_fail") => hist_file' = CorruptFile]_vars
    /\ [](RemoveThenQuery =>
            /\ h_prev.ret => (~h_last.ret /\ h_last.entry = <<>>)
            /\ h_last.ret <=> HoldsUrl(hist_file, h_last.url))

\* remove(url) returned True for a URL that had been added on the current
\* date, the query that followed missed, and an entry of another URL is still
\* in the file
C11_Witness ==
    /\ RemoveThenQuery /\ h_prev.ret /\ ~h_last.ret
    /\ hist_file.kind = "json"
    /\ TotalEntries(hist_file.data) = 1
    /\ hist_file.data[1].downloads[1].url # h_last.url

NoEmptyDate(file) == \A k \in DOMAIN Load(file) : Load(file)[k].downloads # <<>>

\* C12: whatever add, remove and clear calls were made on a history file that
\* was empty at first, no date key of the persisted history has an empty list;
\* a remove(url) that returned True leaves exactly the date keys that held an
\* entry of another URL.
C12_NoEmptyPartition ==
    /\ [](NoEmptyDate(hist_file))
    /\ [][(RemoveStep /\ h_last'.ret) =>
            DatesOf(Load(hist_file')) =
                {p.date : p \in {q \in {Load(hist_file)[k] : k \in DOMAIN Load(hist_file)} :
                                    \E j \in DOMAIN q.downloads :
                                        q.downloads[j].url # h_last'.url}}]_vars

\* the URL was added on the current date and then removed: the key of the
\* current date is gone while an older date is still there
C12_Witness ==
    /\ h_last.op = "remove" /\ h_last.ret
    /\ h_prev.op = "add" /\ h_prev.ret /\ h_prev.url = h_last.url
    /\ hist_file.kind = "json"
    /\ Len(hist_file.data) = 1
    /\ today \notin DatesOf(hist_file.data)

\* a step that is one HistoryManager call: the record of the call is in h_last'
CallStep ==
    /\ h_last'.op # "none"
    /\ h_prev' = h_last
    /\ today' = today

Unreadable(file) == file.kind \in {"missing", "corrupt"}

\* C18: with the history file missing or holding corrupt JSON, load yields the
\* empty history without raising, and is_downloaded, remove, get_stats and add
\* do what they do on an empty history: a miss, False with the file left
\* alone, all-zero statistics, and a file holding just the added entry.
C18_UnreadableIsEmpty ==
    [][(CallStep /\ Unreadable(hist_file)) =>
        LET c == h_last'
        IN  /\ c.op \in {"is_downloaded", "get_stats"} =>
                  (hist_mem'[c.by] = <<>> /\ hist_file' = hist_file)
            /\ c.op = "is_downloaded" => (~c.ret /\ c.entry = <<>>)
            /\ c.op = "remove" => (~c.ret /\ c.io = "none" /\ hist_file' = hist_file)
            /\ c.op = "get_stats" =>
                  c.entry = <<[total_downloads |-> 0, unique_days |-> 0, urls_today |-> 0]>>
            /\ c.op = "add" =>
                  /\ c.ret <=> c.io = "ok"
                  /\ c.ret =>
                        /\ hist_file'.kind = "json"
                        /\ DatesOf(hist_file'.data) = {today}
                        /\ TotalEntries(hist_file'.data) = 1
                        /\ Flatten(hist_file'.data)[1].url = c.url]_vars

\* an add whose json.dump failed left a truncated file, and the query that
\* followed read it as the empty history
C18_Witness ==
    /\ hist_file.kind = "corrupt"
    /\ h_last.op = "is_downloaded" /\ ~h_last.ret
    /\ h_prev.op = "add" /\ h_prev.io = "write_fail"
    /\ h_prev.url = h_last.url
    /\ hist_mem[ServiceManager] = <<>>

\* C20: is_downloaded(url), on whichever HistoryManager instance, returns True
\* exactly when the history file holds an entry with that URL at the time of
\* the call, whatever the instance had in memory: what another instance added
\* or removed is seen.  (Checked under SpecShared; the file is not touched
\* between the call and the state that shows its record.)
C20_FileIsTruth ==
    h_last.op = "is_downloaded" =>
        /\ h_last.ret <=> HoldsUrl(hist_file, h_last.url)
        /\ h_last.ret => (h_last.entry # <<>> /\ h_last.entry[1].url = h_last.url)
        /\ (h_prev.op = "add" /\ h_prev.ret /\ h_prev.url = h_last.url) => h_last.ret
        /\ (h_prev.op = "remove" /\ h_prev.ret /\ h_prev.url = h_last.url) => ~h_last.ret

\* the instance that had loaded the history before the other instance added
\* the URL finds it
C20_Witness ==
    /\ h_last.op = "is_downloaded" /\ h_last.by = "other" /\ h_last.ret
    /\ h_prev.op = "add" /\ h_prev.by = ServiceManager /\ h_prev.ret
    /\ h_prev.url = h_last.url
    /\ TotalEntries(hist_file.data) = 1

(***************************************************************************)
(* Properties of InfoExtractor, checked under SpecInfo                     *)
(***************************************************************************)
InfoCalled == i_last.op # "none"

\* C13: get_info / get_content_type never raises: for every input string and
\* every behaviour of the extraction call (a mapping, None, an exception), the
\* caller gets a (kind, info) result.
C13_NeverRaises == InfoCalled => ~Raised(i_last.result)

ContentKinds == {"video", "playlist", "channel"}

\* C14: the kind that get_info / get_content_type returns is one of 'video',
\* 'playlist' and 'channel', whatever _type the collaborator reports and
\* whichever fallback path ran.
C14_KindEnumerated ==
    (InfoCalled /\ ~Raised(i_last.result)) => i_last.result.kind \in ContentKinds

\* the strings with '/channel/', '/c/', '/user/' or '/@' in them
HasChannelSegment(url) ==
    \E i \in DOMAIN url : url[i] = "/@" \/ url[i] = "/channel/" \/ url[i] = "/c/"
                             \/ url[i] = "/user/"

ChannelSamples ==
    {<<"https://youtube.com", "/channel/", "UC1">>, <<"https://youtube.com", "/c/", "name">>,
     <<"https://youtube.com", "/user/", "name">>, <<"https://youtube.com", "/@", "name">>}

\* C15: for a URL with '/channel/', '/c/', '/user/' or '/@' in it, the kind is
\* 'channel' when the collaborator reports 'playlist', and when it raises or
\* returns None; a URL without such a segment that is reported as 'playlist'
\* stays 'playlist'.  (A string that urlparse rejects is no URL: C13.)
C15_ChannelDisambiguation ==
    /\ InfoCalled =>
          LET u == i_last.url
              answer == i_last.reply
              kind == i_last.result.kind
          IN  /\ (HasChannelSegment(u) /\ answer.r = "info" /\ answer.type = "playlist")
                    => kind = "channel"
              /\ (HasChannelSegment(u) /\ answer.r \in {"raise", "none"}
                    /\ ~UrlParseRaises(u)) => kind = "channel"
              /\ (~HasChannelSegment(u) /\ answer.r = "info" /\ answer.type = "playlist")
                    => kind = "playlist"
    /\ \A u \in ChannelSamples :
          \A answer \in {a \in MetaReplies : a.r \in {"raise", "none"} \/ a.type = "playlist"} :
              ExtractWithYtdlp(u, answer).kind = "channel"

\* the collaborator reported 'playlist' for the handle URL of a channel
C15_Witness ==
    /\ i_last.op = "get_info"
    /\ i_last.url = UrlChan
    /\ i_last.reply.r = "info" /\ i_last.reply.type = "playlist"
    /\ i_last.result.kind = "channel"

\* C16: on one InfoExtractor a get_info(url) that has returned is served from
\* the cache ever after: the same result, no collaborator call, also for a
\* result of the URL-pattern fallback; no call changes or removes the cache
\* entry of any URL that has one.
C16_CacheStable ==
    /\ [][\A u \in AllUrls : Cached(u) => cache'[u] = cache[u]]_vars
    /\ [][(i_last' # i_last /\ i_last'.use_cache /\ Cached(i_last'.url)) =>
            /\ i_last'.reply = NoReply
            /\ i_last'.result.kind = cache[i_last'.url][1].kind
            /\ i_last'.op = "get_info" => i_last'.result = cache[i_last'.url][1]]_vars
    /\ []((i_last.op = "get_info" /\ i_last.use_cache /\ ~Raised(i_last.result))
            => cache[i_last.url] = <<i_last.result>>)

\* a fallback result of the playlist URL came back from the cache, without a
\* collaborator call, after the channel URL had been classified too
C16_Witness ==
    /\ i_last.op = "get_info" /\ i_last.use_cache
    /\ i_last.url = UrlPL
    /\ i_last.reply = NoReply
    /\ i_last.result = [kind |-> "playlist", info |-> EmptyInfo]
    /\ Cached(UrlChan)

(***************************************************************************)
(* Properties of the worker pool, checked under SpecPool                   *)
(***************************************************************************)
\* line 323 has been passed without an exception
PoolCreated == cpc \in {"submit", "collect", "summary", "done"}

\* C17: the size of the worker pool that download() creates is within 1..5;
\* a max_workers argument outside that range is clamped or rejected before
\* the pool is created.
C17_PoolWithinRange ==
    PoolCreated => (1 <= PoolSize /\ PoolSize <= MAX_CONCURRENT_WORKERS)

(***************************************************************************)
(* Properties of download() under failing saves, checked under SpecFaulty  *)
(***************************************************************************)
\* the last add() of download() could not persist the history
AddFailed == h_last.op = "add" /\ ~h_last.ret

\* C19: when the history cannot be persisted (or read) while download()
\* records a success, download() does not raise: the outcome is in results
\* as a success, the loop goes on until every task is collected, and the
\* summary is printed and counts every success.
C19_SaveFailureTolerated ==
    /\ cpc # "raised"
    /\ AddFailed =>
          \E k \in DOMAIN results : results[k].success /\ results[k].url = h_last.url
    /\ cpc \notin {"done", "raised"} => ENABLED NextFaulty
    /\ cpc = "done" =>
          /\ \A i \in Tasks : wpc[i] = "collected"
          /\ Len(results) = Len(urls)
          /\ summary # <<>>
          /\ summary[1].successful = SumCount(SuccessfulDownloads(results))
          /\ Len(SuccessfulDownloads(results)) = Cardinality(SucceededTasks)

\* two URLs succeeded, the save of the first one's history entry failed, the
\* second was still collected, and the summary counts both
C19_Witness ==
    /\ cpc = "done"
    /\ Len(urls) = 2
    /\ Len(SuccessfulDownloads(results)) = 2
    /\ summary[1].successful >= 2
    /\ h_prev.op = "add" /\ ~h_prev.ret
    /\ h_last.op = "add"

(***************************************************************************)
(* Further properties of download(), checked under Spec                    *)
(***************************************************************************)

RECURSIVE CountOver(_)
CountOver(S) ==
    IF S = {} THEN 0
    ELSE LET i == CHOOSE j \in S : TRUE
         IN  outcome[i][1].count + CountOver(S \ {i})

\* C21: the summary of a finished batch is a function of the per-URL outcomes
\* alone: the successful total is the sum of the counts of the successful
\* outcomes, the failed total is the sum of the counts of the failed outcomes,
\* and the failure list holds, as a set, the (url, reason) pair of each failed
\* task, whatever the order in which the workers completed.
C21_SummaryOrderIndependent ==
    cpc = "done" =>
        /\ summary[1].successful = CountOver(SucceededTasks)
        /\ summary[1].failed = CountOver(FailedTasks)
        /\ Len(summary[1].failed_urls) = Cardinality(FailedTasks)
        /\ {<<f.url, f.reason>> :
               f \in {summary[1].failed_urls[k] : k \in DOMAIN summary[1].failed_urls}}
             = {<<urls[i], outcome[i][1].message>> : i \in FailedTasks}

\* the second URL completed first, failed, and a success was collected after it
C21_Witness ==
    /\ cpc = "done"
    /\ Len(urls) = 2
    /\ results[1].url = urls[2]
    /\ urls[1] # urls[2]
    /\ FailedTasks # {}
    /\ SucceededTasks # {}

(***************************************************************************)
(* Further properties of the worker, checked under SpecWorker              *)
(***************************************************************************)

\* a download answer that is a non-empty result
NonEmptyResult(reply) ==
    /\ reply.r = "info"
    /\ reply.type = "playlist" => reply.entries >= 1

\* C27: a worker makes between 1 and 3 download calls and ends with exactly one
\* outcome; only a raising call is followed by another one; when the first k-1
\* calls raise and the k-th returns a non-empty result the outcome is a success
\* after exactly k calls and k-1 sleeps; a worker that has not returned can
\* always take a step.
C27_RetryTerminates ==
    \A i \in Tasks :
        /\ Len(dl_log[i]) <= MAX_RETRIES
        /\ Len(outcome[i]) <= 1
        /\ \A k \in DOMAIN dl_log[i] :
              k < Len(dl_log[i]) => dl_log[i][k].r = "raise"
        /\ Returned(i) =>
              /\ Len(dl_log[i]) >= 1
              /\ Len(outcome[i]) = 1
              /\ LastOf(dl_log[i]).r = "raise" => Len(dl_log[i]) = MAX_RETRIES
              /\ NonEmptyResult(LastOf(dl_log[i])) =>
                    /\ outcome[i][1].success
                    /\ Len(sleeps[i]) = Len(dl_log[i]) - 1
        /\ (dl_log[i] # <<>> /\ NonEmptyResult(LastOf(dl_log[i]))) => Returned(i)
        /\ ~Returned(i) => ENABLED NextWorker

\* a success on the second call, after one raise and one sleep
C27_Witness ==
    \E i \in Tasks :
        /\ Returned(i)
        /\ Len(dl_log[i]) = 2
        /\ dl_log[i][1].r = "raise"
        /\ NonEmptyResult(dl_log[i][2])
        /\ outcome[i][1].success
        /\ sleeps[i] = <<RETRY_DELAY>>

(***************************************************************************)
(* Further properties of HistoryManager, checked under SpecHistory         *)
(***************************************************************************)

AddStep == CallStep /\ h_last'.op = "add"

\* the entries a file holds under a date, in order
PartitionOf(file, date) ==
    LET h == Load(file)
        S == {k \in DOMAIN h : h[k].date = date}
    IN  IF S = {} THEN <<>> ELSE h[CHOOSE k \in S : TRUE].downloads

\* C28: after an add call every entry the file held before is still there,
\* under its date and in its order: each date partition of the file before the
\* call is a prefix of the partition of the same date after it (the whole of it
\* for every date but the current one, where the new entry follows).
C28_AddIsAppendOnly ==
    [][AddStep =>
          \A d \in DatesOf(Load(hist_file)) :
              LET old == PartitionOf(hist_file, d)
                  new == PartitionOf(hist_file', d)
              IN  /\ Len(new) >= Len(old)
                  /\ SubSeq(new, 1, Len(old)) = old
                  /\ d # today => new = old
      ]_vars

(***************************************************************************)
(* Properties of the metadata-only calls of download(), checked under      *)
(* SpecMeta                                                                *)
(***************************************************************************)
Started(i) == wpc[i] \notin {"new", "queued"}
WorkersRun == cpc \in {"submit", "collect", "summary", "done"}
TasksOf(u) == {i \in Tasks : urls[i] = u}

\* every worker's get_info is a hit on the cache the pre-flight pass filled:
\* the cache is complete before a worker is submitted and is not written
\* afterwards, and a started worker holds the kind cached for its URL
PreflightFillsCache ==
    /\ [](WorkersRun =>
             /\ \A i \in Tasks : Cached(urls[i])
             /\ \A i \in Tasks : Started(i) =>
                   content_type[i] = cache[urls[i]][1].kind)
    /\ [][WorkersRun => cache' = cache]_vars
    /\ [][WorkersRun => meta_calls'["flat"] = meta_calls["flat"]]_vars

\* C29 as stated: no URL gets more than one metadata-only extraction call in a
\* download() call, and the workers only hit the cache of the pre-flight pass.
C29_OneCallPerUrl ==
    /\ [](\A u \in AllUrls : meta_calls["flat"][u] + meta_calls["title"][u] <= 1)
    /\ PreflightFillsCache

\* C29: the flat classification call is made at most once per distinct URL, by
\* the pre-flight pass, and the workers only hit the cache it filled; the only
\* other metadata-only calls are the title fetches, one by each started worker
\* of a URL classified as a video when AI filename cleaning is on.
C29_OneClassificationPerUrl ==
    /\ [](\A u \in AllUrls :
             /\ meta_calls["flat"][u] <= 1
             /\ meta_calls["flat"][u] = 1 <=> Cached(u)
             /\ meta_calls["title"][u] =
                   (IF use_ai /\ Cached(u) /\ cache[u][1].kind = "video"
                    THEN Cardinality({i \in TasksOf(u) : Started(i)})
                    ELSE 0))
    /\ PreflightFillsCache

\* with cleaning on, a video URL listed twice got one classification call and
\* two title fetches, while a playlist got one classification call only
C29_Witness ==
    /\ use_ai
    /\ \E u \in AllUrls :
          /\ Cardinality(TasksOf(u)) = 2
          /\ \A i \in TasksOf(u) : Started(i)
          /\ meta_calls["flat"][u] = 1
          /\ meta_calls["title"][u] = 2

(***************************************************************************)
(* Properties of two concurrent add() calls, checked under SpecRace        *)
(***************************************************************************)
BothDone == \A m \in Managers : rpc[m] = "done"

\* a lost update: both calls are over, the file is the complete image of one
\* writer, and the entry of the other writer is not in it
LostUpdate ==
    /\ BothDone
    /\ \E m \in Managers :
          /\ hist_file = JsonFile(hist_mem[m])
          /\ \E o \in Managers \ {m} : ~HoldsUrl(hist_file, radd[o])

\* C26: when both add() calls are over, the history file is the complete image
\* one of the two writers saved.
C26_FileIsOneImage ==
    BothDone => \E m \in Managers : hist_file = JsonFile(hist_mem[m])

(***************************************************************************)
(* Properties of ConfigManager, checked under SpecConfig                   *)
(***************************************************************************)

\* C30: after a load, and after any later set and update calls, every value of
\* the configuration passes validation: concurrent_downloads is an integer in
\* 1..5 and duplicate_action is one of ask, download and skip; a set or update
\* that raises leaves the configuration as it was.
C30_ConfigAlwaysValid ==
    /\ \A key \in ConfigKeys : ValidValue(key, cfg_mem[key])
    /\ cfg_mem["concurrent_downloads"].n \in 1..MAX_CONCURRENT_WORKERS
    /\ cfg_mem["duplicate_action"].s \in {"ask", "download", "skip"}

(***************************************************************************)
(* Properties of a CLI run, checked under SpecCli                          *)
(***************************************************************************)
\* the entries a file holds for a URL
EntriesFor(file, url) == Len(SelectSeq(Flatten(Load(file)), LAMBDA d : d.url = url))

ListedOnce(url) == Cardinality({k \in DOMAIN cli_urls : cli_urls[k] = url}) = 1

\* the step that calls download()
CallsDownload == cpc # "preflight" /\ cpc' = "preflight"

\* the step that ends a pass of the loop of _handle_duplicates
DecideStep == cpc = "dup_decide" /\ cpc' = "dup_query"

\* the duplicate policy in force when the run started
Policy == IF mode = "batch" THEN DuplicateAction(cfg_mem) ELSE dup_action

\* C22: in either mode, when the policy is 'skip', download() is not handed a
\* URL that has a history entry.
C22_BatchHandlesDuplicates ==
    [][(CallsDownload /\ Policy = "skip") =>
          \A i \in DOMAIN urls' : ~HoldsUrl(hist_file, urls'[i])]_vars

\* the URLs of the passes that kept theirs, in order
RECURSIVE KeptUrls(_)
KeptUrls(ds) ==
    IF ds = <<>> THEN <<>>
    ELSE (IF Head(ds).keep THEN <<Head(ds).url>> ELSE <<>>) \o KeptUrls(Tail(ds))

HandleReturned == mode = "interactive" /\ cpc # "cli" /\ didx = Len(cli_urls)

\* C23: _handle_duplicates deals with the URLs in order and returns those it
\* kept; a URL with no history entry when it is looked up is kept; under 'skip'
\* no URL of the result has a history entry; under 'download' the result is the
\* input list; and the history file changes only in a pass that took the
\* RemoveAndDownload decision.
C23_HandleDuplicates ==
    /\ [](/\ to_download = KeptUrls(decisions)
          /\ \A k \in DOMAIN decisions :
                /\ decisions[k].url = cli_urls[k]
                /\ ~decisions[k].hit => decisions[k].keep
          /\ dup_action = "skip" =>
                \A k \in DOMAIN to_download : ~HoldsUrl(hist0, to_download[k])
          /\ (dup_action = "download" /\ HandleReturned) => to_download = cli_urls
          /\ (cpc \in {"dup_query", "dup_decide"}
                /\ \A k \in DOMAIN decisions : decisions[k].choice # "3")
               => hist_file = hist0)
    /\ [][(cpc = "dup_query" /\ cpc' = "dup_decide") =>
             /\ h_last'.ret = HoldsUrl(hist_file, cli_urls[didx + 1])
             /\ hist_file' = hist_file]_vars
    /\ [][(DecideStep /\ hist_file' # hist_file) => LastOf(decisions').choice = "3"]_vars

\* under 'skip' the duplicate of a two-URL list was dropped and the other kept
C23_Witness ==
    /\ HandleReturned
    /\ dup_action = "skip"
    /\ Len(cli_urls) = 2
    /\ to_download = <<UrlBBB>>
    /\ decisions[2].hit /\ ~decisions[2].keep

SucceededUrl(url) == \E j \in SucceededTasks : urls[j] = url

AllSavesOk ==
    /\ \A k \in DOMAIN add_log : add_log[k].ret
    /\ \A k \in DOMAIN decisions : decisions[k].choice = "3" => decisions[k].removed

\* what the two decisions lead to once the run is over
RemoveLeavesOne(k) ==
    (decisions[k].choice = "3" /\ SucceededUrl(decisions[k].url)) =>
        EntriesFor(hist_file, decisions[k].url) = 1

AgainAddsOne(k) ==
    (decisions[k].choice = "1" /\ SucceededUrl(decisions[k].url)) =>
        EntriesFor(hist_file, decisions[k].url) = EntriesFor(hist0, decisions[k].url) + 1

C25_AlwaysIsPersisted ==
    [][(DecideStep /\ LastOf(decisions').choice \in {"4", "5"}) =>
          /\ DuplicateAction(LoadConfig(cfg_file')) =
                (IF LastOf(decisions').choice = "4" THEN "download" ELSE "skip")
          /\ dup_action' = dup_action
          /\ dup_action \notin {"download", "skip"}]_vars

====
